---- MODULE Spec2Model ----
(***************************************************************************)
(* Model of the two binaries of the repository:                            *)
(*   src/src/main.rs      validate_idl, display_instructions,              *)
(*                        display_accounts, format_type, main (build and   *)
(*                        convert commands)                                *)
(*   src/gen/src/main.rs  main (extract-and-patch), extract_program_id,    *)
(*                        write_idl_to_file                                *)
(* Strings are TLA+ strings where only concatenation is needed and         *)
(* sequences of one-character strings where the code scans characters.     *)
(***************************************************************************)
EXTENDS Integers, Sequences, FiniteSets, TLC

VARIABLES
    pc,           \* position of the running command
    idl_file,     \* validate, instructions: what fs::read + convert_idl yield
    result,       \* validate, instructions: the Result the command returns
    names_only,   \* instructions: the --names-only flag
    accounts,     \* the account items handed to display_accounts
    stdout,       \* the lines printed so far
    command,      \* the file-writing command run: "patch", "build" or "convert"
    cli_output,   \* cli.output / output: <<"None">> or <<"Some", path>>
    input_path,   \* convert: the input path
    template_file, \* patch: the text of the template file
    lib_rs,       \* patch: the text of <program_path>/src/lib.rs
    preserve_order, \* whether serde_json's map keeps insertion order
    fs,           \* the files on disk: path -> content
    dirs,         \* the directories created by the run
    idl,          \* the document in memory (a Value or an Idl)
    program_name, \* patch: the local program_name
    program_id,   \* patch: the local program_id
    output_path,  \* the local output_path
    idl_json,     \* the local idl_json
    source_code,  \* extractor: text of src/lib.rs as a sequence of characters
    extracted,    \* extractor: the Result returned by extract_program_id
    ty,           \* formatter: the IdlType handed to format_type
    formatted     \* formatter: the String returned by format_type

vValidate == <<idl_file, result>>
vExtract == <<source_code, extracted>>
vFormat == <<ty, formatted>>
vReport == <<names_only, accounts, stdout>>
vInputs == <<command, cli_output, input_path, template_file, lib_rs, preserve_order>>
vLocals == <<idl, program_name, program_id, output_path, idl_json>>
vRun == <<vInputs, fs, dirs, vLocals>>
vars == <<pc, vValidate, vExtract, vFormat, vReport, vRun>>

\* a component that is not running holds no data
Idle == <<>>
IdleValidate == idl_file = Idle /\ result = Idle
IdleExtract == source_code = Idle /\ extracted = Idle
IdleFormat == ty = Idle /\ formatted = Idle
IdleReport == names_only = FALSE /\ accounts = Idle /\ stdout = <<>>
IdleLocals ==
    /\ idl = Idle /\ program_name = Idle /\ program_id = Idle
    /\ output_path = Idle /\ idl_json = Idle
IdleRun ==
    /\ command = Idle /\ cli_output = Idle /\ input_path = Idle /\ template_file = Idle
    /\ lib_rs = Idle /\ preserve_order = FALSE /\ fs = Idle /\ dirs = {}
    /\ IdleLocals

\* ---------------------------------------------------------------- helpers
BoundedSeq(S, n) == UNION {[1..k -> S] : k \in 0..n}

Ok(v) == <<"Ok", v>>
Err(msg) == <<"Err", msg>>
IsOk(r) == r[1] = "Ok"
IsErr(r) == r[1] = "Err"

Digit(d) == <<"0", "1", "2", "3", "4", "5", "6", "7", "8", "9">>[d + 1]

RECURSIVE UsizeToString(_)
UsizeToString(n) ==
    IF n < 10 THEN Digit(n) ELSE UsizeToString(n \div 10) \o Digit(n % 10)

\* ================================================================ validate
MaxAccounts == 2
MaxInstructions == 2
MaxEvents == 2

EmptyDisc == <<>>
SomeDisc == <<175>>

\* the i-th element of a list of the document, named after its kind and place
Element(kind, i, disc) == [name |-> kind \o UsizeToString(i), discriminator |-> disc]

ElementLists(kind, n) ==
    {[i \in 1..Len(ds) |-> Element(kind, i, ds[i])] :
        ds \in BoundedSeq({EmptyDisc, SomeDisc}, n)}

IdlDocuments ==
    [address : {"", "Prog111"},
     metadata : [name : {"", "demo"}, version : {"", "0.1.0"}],
     accounts : ElementLists("acc", MaxAccounts),
     instructions : ElementLists("ix", MaxInstructions),
     events : ElementLists("ev", MaxEvents)]

\* fs::read fails, convert_idl fails, or convert_idl yields a document
IdlFiles == {<<"ReadErr">>, <<"ParseErr">>} \cup {<<"Idl", d>> : d \in IdlDocuments}

\* the for loops of validate_idl: the first element with an empty discriminator
RECURSIVE first_empty_discriminator(_, _)
first_empty_discriminator(items, i) ==
    IF i > Len(items) THEN 0
    ELSE IF items[i].discriminator = <<>> THEN i
    ELSE first_empty_discriminator(items, i + 1)

validate_idl_swapped(file) ==
    IF file[1] = "ReadErr" THEN Err("Failed to read IDL file")
    ELSE IF file[1] = "ParseErr" THEN Err("IDL validation failed")
    ELSE LET doc == file[2]
             a == first_empty_discriminator(doc.accounts, 1)
             i == first_empty_discriminator(doc.instructions, 1)
             e == first_empty_discriminator(doc.events, 1)
         IN  IF doc.metadata.name = "" THEN Err("IDL is missing program name")
             ELSE IF doc.address = "" THEN Err("IDL is missing program address")
             ELSE IF doc.metadata.version = "" THEN Err("IDL is missing version")
             ELSE IF i # 0 THEN
                 Err("Instruction '" \o doc.instructions[i].name \o "' has an empty discriminator")
             ELSE IF a # 0 THEN
                 Err("Account '" \o doc.accounts[a].name \o "' has an empty discriminator")
             ELSE IF e # 0 THEN
                 Err("Event '" \o doc.events[e].name \o "' has an empty discriminator")
             ELSE Ok("validated")

validate_idl(file) ==
    IF file[1] = "ReadErr" THEN Err("Failed to read IDL file")
    ELSE IF file[1] = "ParseErr" THEN Err("IDL validation failed")
    ELSE LET doc == file[2]
             a == first_empty_discriminator(doc.accounts, 1)
             i == first_empty_discriminator(doc.instructions, 1)
             e == first_empty_discriminator(doc.events, 1)
         IN  IF doc.address = "" THEN Err("IDL is missing program address")
             ELSE IF doc.metadata.name = "" THEN Err("IDL is missing program name")
             ELSE IF doc.metadata.version = "" THEN Err("IDL is missing version")
             ELSE IF a # 0 THEN
                 Err("Account '" \o doc.accounts[a].name \o "' has an empty discriminator")
             ELSE IF i # 0 THEN
                 Err("Instruction '" \o doc.instructions[i].name \o "' has an empty discriminator")
             ELSE IF e # 0 THEN
                 Err("Event '" \o doc.events[e].name \o "' has an empty discriminator")
             ELSE Ok("validated")

InitValidate ==
    /\ pc = "validate"
    /\ idl_file \in IdlFiles
    /\ result = Idle
    /\ IdleExtract /\ IdleFormat /\ IdleReport /\ IdleRun

\* Commands::Validate: main calls validate_idl(input) and returns its result
Validate ==
    /\ pc = "validate"
    /\ result' = validate_idl(idl_file)
    /\ pc' = "validated"
    /\ UNCHANGED <<idl_file, vExtract, vFormat, vReport, vRun>>

SpecValidate == InitValidate /\ [][Validate]_vars

\* ---- C1 ----------------------------------------------------------------
EmptyAt(items) == {i \in 1..Len(items) : items[i].discriminator = <<>>}
Lowest(S) == CHOOSE m \in S : \A k \in S : m <= k

\* C1: for every parsed document validation returns the first violated check
\* in the order address, metadata.name, metadata.version, first account with
\* an empty discriminator, first such instruction, first such event, naming
\* that element, and it succeeds exactly when none of the six is violated.
C1_FirstViolatedCheckWins ==
    (pc = "validated" /\ idl_file[1] = "Idl") =>
        LET d == idl_file[2]
            headerOk == d.address # "" /\ d.metadata.name # "" /\ d.metadata.version # ""
            accs == EmptyAt(d.accounts)
            ixs == EmptyAt(d.instructions)
            evs == EmptyAt(d.events)
        IN  /\ d.address = "" => result = Err("IDL is missing program address")
            /\ (d.address # "" /\ d.metadata.name = "")
                  => result = Err("IDL is missing program name")
            /\ (d.address # "" /\ d.metadata.name # "" /\ d.metadata.version = "")
                  => result = Err("IDL is missing version")
            /\ (headerOk /\ accs # {})
                  => result = Err("Account '" \o d.accounts[Lowest(accs)].name
                                       \o "' has an empty discriminator")
            /\ (headerOk /\ accs = {} /\ ixs # {})
                  => result = Err("Instruction '" \o d.instructions[Lowest(ixs)].name
                                       \o "' has an empty discriminator")
            /\ (headerOk /\ accs = {} /\ ixs = {} /\ evs # {})
                  => result = Err("Event '" \o d.events[Lowest(evs)].name
                                       \o "' has an empty discriminator")
            /\ IsOk(result) <=> (headerOk /\ accs = {} /\ ixs = {} /\ evs = {})

\* a document whose second account, first instruction and first event all have
\* empty discriminators is rejected naming the second account
C1_Witness ==
    /\ pc = "validated"
    /\ idl_file[1] = "Idl"
    /\ idl_file[2].address # ""
    /\ EmptyAt(idl_file[2].accounts) = {2}
    /\ 1 \in EmptyAt(idl_file[2].instructions)
    /\ 1 \in EmptyAt(idl_file[2].events)
    /\ result = Err("Account 'acc2' has an empty discriminator")

\* ================================================================ extractor
MaxLines == 2
MaxTail == 3

Quote == "\""
Newline == "\n"
Whitespace == {" ", "\t", "\r", Newline}

\* the literal "declare_id!" of extract_program_id
DeclareId == <<"d", "e", "c", "l", "a", "r", "e", "_", "i", "d", "!">>

\* input lines: lines without the macro token, lines that start with it and
\* go on with up to MaxTail quotes and identifier characters, and indented
\* lines that start with it
SourceLines ==
    BoundedSeq({Quote, "A"}, MaxTail - 1)
    \cup {DeclareId \o t : t \in BoundedSeq({Quote, "A"}, MaxTail)}
    \cup {<<" ">> \o DeclareId \o t : t \in {<<Quote, "A", Quote>>, <<Quote>>}}

RECURSIVE JoinLines(_)
JoinLines(ls) ==
    IF Len(ls) = 0 THEN <<>>
    ELSE IF Len(ls) = 1 THEN ls[1]
    ELSE ls[1] \o <<Newline>> \o JoinLines(Tail(ls))

SourceTexts == {JoinLines(ls) : ls \in BoundedSeq(SourceLines, MaxLines)}

\* str::find(char): 1-based position of the first occurrence, 0 for None
RECURSIVE find(_, _, _)
find(s, ch, i) ==
    IF i > Len(s) THEN 0
    ELSE IF s[i] = ch THEN i
    ELSE find(s, ch, i + 1)

\* str::lines(): split at every newline, a final empty piece is not a line,
\* and one carriage return before the newline is dropped
RECURSIVE split_newline(_)
split_newline(s) ==
    LET n == find(s, Newline, 1)
    IN  IF n = 0 THEN <<s>>
        ELSE <<SubSeq(s, 1, n - 1)>> \o split_newline(SubSeq(s, n + 1, Len(s)))

strip_cr(l) == IF Len(l) > 0 /\ l[Len(l)] = "\r" THEN SubSeq(l, 1, Len(l) - 1) ELSE l

lines(s) ==
    LET pieces == split_newline(s)
        kept == IF pieces[Len(pieces)] = <<>>
                THEN SubSeq(pieces, 1, Len(pieces) - 1) ELSE pieces
    IN  [i \in 1..Len(kept) |-> strip_cr(kept[i])]

\* str::trim(): drop leading and trailing whitespace
RECURSIVE trim_start(_)
trim_start(s) ==
    IF Len(s) > 0 /\ s[1] \in Whitespace THEN trim_start(Tail(s)) ELSE s

RECURSIVE trim_end(_)
trim_end(s) ==
    IF Len(s) > 0 /\ s[Len(s)] \in Whitespace
    THEN trim_end(SubSeq(s, 1, Len(s) - 1)) ELSE s

trim(s) == trim_end(trim_start(s))

starts_with(s, prefix) ==
    Len(s) >= Len(prefix) /\ SubSeq(s, 1, Len(prefix)) = prefix

\* Iterator::find over the lines, taking the last matching line instead
RECURSIVE find_last_declare_id_line(_, _)
find_last_declare_id_line(ls, i) ==
    IF i > Len(ls) THEN 0
    ELSE LET later == find_last_declare_id_line(ls, i + 1)
         IN  IF later # 0 THEN later
             ELSE IF starts_with(trim(ls[i]), DeclareId) THEN i ELSE 0

\* Iterator::find over the lines, skipping matching lines that hold no literal
RECURSIVE find_quoted_declare_id_line(_, _)
find_quoted_declare_id_line(ls, i) ==
    IF i > Len(ls) THEN 0
    ELSE IF starts_with(trim(ls[i]), DeclareId)
            /\ Cardinality({k \in 1..Len(ls[i]) : ls[i][k] = Quote}) >= 2 THEN i
    ELSE find_quoted_declare_id_line(ls, i + 1)

\* Iterator::find over the lines: position of the first matching line, 0 for None
RECURSIVE find_declare_id_line(_, _)
find_declare_id_line(ls, i) ==
    IF i > Len(ls) THEN 0
    ELSE IF starts_with(trim(ls[i]), DeclareId) THEN i
    ELSE find_declare_id_line(ls, i + 1)

extract_program_id(src) ==
    LET ls == lines(src)
        n == find_declare_id_line(ls, 1)
    IN  IF n = 0 THEN Err("Could not find declare_id! in source code")
        ELSE LET declare_id_line == ls[n]
                 q1 == find(declare_id_line, Quote, 1)
             IN  IF q1 = 0 THEN Err("Invalid declare_id! format")
                 ELSE LET rest == SubSeq(declare_id_line, q1 + 1, Len(declare_id_line))
                          q2 == find(rest, Quote, 1)
                      IN  IF q2 = 0 THEN Err("Invalid declare_id! format")
                          ELSE Ok(SubSeq(rest, 1, q2 - 1))

InitExtract ==
    /\ pc = "extract"
    /\ source_code \in SourceTexts
    /\ extracted = Idle
    /\ IdleValidate /\ IdleFormat /\ IdleReport /\ IdleRun

ExtractProgramId ==
    /\ pc = "extract"
    /\ extracted' = extract_program_id(source_code)
    /\ pc' = "extracted"
    /\ UNCHANGED <<source_code, vValidate, vFormat, vReport, vRun>>

SpecExtract == InitExtract /\ [][ExtractProgramId]_vars

\* ---- C2, C3 -------------------------------------------------------------
IsMatchingLine(l) ==
    \E k \in 0..Len(l) :
        /\ \A j \in 1..k : l[j] \in Whitespace
        /\ Len(l) >= k + Len(DeclareId)
        /\ \A j \in 1..Len(DeclareId) : l[k + j] = DeclareId[j]

QuotePositions(l) == {i \in 1..Len(l) : l[i] = Quote}

\* the lines of a text, told by the positions of its newlines: a line starts
\* after position b, where b is 0 or the position of a newline
LineStarts(src) == {0} \cup {i \in 1..Len(src) : src[i] = Newline}
LineEnd(src, b) ==
    Lowest({i \in (b + 1)..(Len(src) + 1) : i = Len(src) + 1 \/ src[i] = Newline})
LineAfter(src, b) == [i \in 1..(LineEnd(src, b) - b - 1) |-> src[b + i]]
MatchingLines(src) == {b \in LineStarts(src) : IsMatchingLine(LineAfter(src, b))}
FirstMatchingLine(src) == LineAfter(src, Lowest(MatchingLines(src)))

\* C2: when a line begins (after leading whitespace) with the macro token and
\* the first such line carries a quoted literal, the result is exactly the
\* text strictly between the first quote of that line and the next quote,
\* whatever the other lines hold; an empty literal gives the empty string.
C2_FirstLiteralReturned ==
    (pc = "extracted" /\ MatchingLines(source_code) # {}
        /\ Cardinality(QuotePositions(FirstMatchingLine(source_code))) >= 2) =>
        LET l == FirstMatchingLine(source_code)
            a == Lowest(QuotePositions(l))
            b == Lowest(QuotePositions(l) \ {a})
        IN  extracted = Ok([i \in 1..(b - a - 1) |-> l[a + i]])

\* two matching lines with different literals, the first one indented: the
\* first literal is returned
C2_Witness ==
    /\ pc = "extracted"
    /\ source_code = <<" ">> \o DeclareId \o <<Quote, "A", Quote, Newline>>
                        \o DeclareId \o <<Quote, Quote>>
    /\ extracted = Ok(<<"A">>)

\* C3: the not-found error is returned exactly when no line begins with the
\* macro token; when a line matches, the malformed-literal error is returned
\* exactly when the first matching line has fewer than two quote characters,
\* even if a later matching line is well formed; a failure carries no identifier.
C3_ExtractionErrors ==
    pc = "extracted" =>
        /\ extracted = Err("Could not find declare_id! in source code")
              <=> MatchingLines(source_code) = {}
        /\ MatchingLines(source_code) # {} =>
              (extracted = Err("Invalid declare_id! format")
                  <=> Cardinality(QuotePositions(FirstMatchingLine(source_code))) < 2)
        /\ IsErr(extracted) \/ IsOk(extracted)
        /\ IsErr(extracted) => Len(extracted) = 2

\* first matching line has one quote, a later matching line is well formed
C3_Witness ==
    /\ pc = "extracted"
    /\ source_code = DeclareId \o <<Quote, "A", Newline>>
                        \o DeclareId \o <<Quote, "A", Quote>>
    /\ extracted = Err("Invalid declare_id! format")

\* ================================================================ formatter
\* IdlType values are tuples headed by the variant's name:
\*   <<"U8">>, <<"Option", T>>, <<"Vec", T>>, <<"Array", T, len>>,
\*   <<"Defined", name, generics>>, <<"Generic", name>>
\* IdlArrayLen is <<"Value", size>> or <<"Generic", name>>; IdlGenericArg is
\* <<"Type", T>> or <<"Const", value>>.  <<"Future">> stands for a variant the
\* match of format_type does not list.
MaxNodes == 3

Scalars == {"Bool", "U8", "I8", "U16", "I16", "U32", "I32", "F32", "U64", "I64",
            "F64", "U128", "I128", "U256", "I256", "Bytes", "String", "Pubkey"}

ArrayLens == {<<"Value", 32>>, <<"Generic", "N">>}

LeafTypes == {<<"U8">>, <<"U64">>, <<"Pubkey">>, <<"Generic", "T">>,
              <<"Defined", "Foo", <<>>>>, <<"Future">>}

RECURSIVE TypesOfSize(_), GenericsOfSize(_)
\* the types with exactly n nodes
TypesOfSize(n) ==
    IF n <= 1 THEN LeafTypes
    ELSE LET inner == TypesOfSize(n - 1)
         IN  {<<"Option", t>> : t \in inner}
             \cup {<<"Vec", t>> : t \in inner}
             \cup {<<"Array", t, l>> : t \in inner, l \in ArrayLens}
             \cup {<<"Defined", "Foo", gs>> : gs \in GenericsOfSize(n - 1)}

\* the non-empty generic argument lists with n nodes in all
GenericsOfSize(n) ==
    IF n < 1 THEN {}
    ELSE LET FirstArgs(k) == {<<"Type", t>> : t \in TypesOfSize(k)}
                                 \cup (IF k = 1 THEN {<<"Const", "8">>} ELSE {})
         IN  {<<a>> : a \in FirstArgs(n)}
             \cup UNION {{<<a>> \o rest : a \in FirstArgs(k), rest \in GenericsOfSize(n - k)} :
                            k \in 1..(n - 1)}

IdlTypes ==
    {<<sc>> : sc \in Scalars} \cup UNION {TypesOfSize(n) : n \in 1..MaxNodes}

\* the display names of the scalar variants
ShortNames ==
    {<<"Bool", "bool">>, <<"U8", "u8">>, <<"I8", "i8">>, <<"U16", "u16">>,
     <<"I16", "i16">>, <<"U32", "u32">>, <<"I32", "i32">>, <<"F32", "f32">>,
     <<"U64", "u64">>, <<"I64", "i64">>, <<"F64", "f64">>, <<"U128", "u128">>,
     <<"I128", "i128">>, <<"U256", "u256">>, <<"I256", "i256">>,
     <<"Bytes", "bytes">>, <<"String", "string">>, <<"Pubkey", "pubkey">>}

\* [String]::join(sep)
RECURSIVE join(_, _)
join(strs, sep) ==
    IF Len(strs) = 0 THEN ""
    ELSE IF Len(strs) = 1 THEN strs[1]
    ELSE strs[1] \o sep \o join(Tail(strs), sep)

RECURSIVE format_type(_)
\* format_type with the Vec arm printing the inner variant's name unformatted
format_type_vec_unformatted(t) ==
    CASE t[1] = "Vec" -> "Vec<" \o t[2][1] \o ">"
      [] t[1] = "Option" -> "Option<" \o format_type(t[2]) \o ">"
      [] t[1] = "Array" ->
            "[" \o format_type(t[2]) \o "; "
                \o (IF t[3][1] = "Value" THEN UsizeToString(t[3][2]) ELSE t[3][2]) \o "]"
      [] t[1] = "Defined" ->
            IF t[3] = <<>> THEN t[2]
            ELSE t[2] \o "<"
                   \o join([i \in 1..Len(t[3]) |->
                              IF t[3][i][1] = "Type" THEN format_type(t[3][i][2])
                              ELSE t[3][i][2]], ", ") \o ">"
      [] t[1] = "Generic" -> t[2]
      [] t[1] = "Future" -> "<unknown type>"
      [] OTHER -> CHOOSE n \in {p[2] : p \in ShortNames} : <<t[1], n>> \in ShortNames

format_type(t) ==
    CASE t[1] = "Bool" -> "bool"
      [] t[1] = "U8" -> "u8"
      [] t[1] = "I8" -> "i8"
      [] t[1] = "U16" -> "u16"
      [] t[1] = "I16" -> "i16"
      [] t[1] = "U32" -> "u32"
      [] t[1] = "I32" -> "i32"
      [] t[1] = "F32" -> "f32"
      [] t[1] = "U64" -> "u64"
      [] t[1] = "I64" -> "i64"
      [] t[1] = "F64" -> "f64"
      [] t[1] = "U128" -> "u128"
      [] t[1] = "I128" -> "i128"
      [] t[1] = "U256" -> "u256"
      [] t[1] = "I256" -> "i256"
      [] t[1] = "Bytes" -> "bytes"
      [] t[1] = "String" -> "string"
      [] t[1] = "Pubkey" -> "pubkey"
      [] t[1] = "Option" -> "Option<" \o format_type(t[2]) \o ">"
      [] t[1] = "Vec" -> "Vec<" \o format_type(t[2]) \o ">"
      [] t[1] = "Array" ->
            IF t[3][1] = "Value"
            THEN "[" \o format_type(t[2]) \o "; " \o UsizeToString(t[3][2]) \o "]"
            ELSE "[" \o format_type(t[2]) \o "; " \o t[3][2] \o "]"
      [] t[1] = "Defined" ->
            IF t[3] = <<>> THEN t[2]
            ELSE LET generic_strs ==
                         [i \in 1..Len(t[3]) |->
                             IF t[3][i][1] = "Type" THEN format_type(t[3][i][2])
                             ELSE t[3][i][2]]
                 IN  t[2] \o "<" \o join(generic_strs, ", ") \o ">"
      [] t[1] = "Generic" -> t[2]
      [] OTHER -> "<unknown type>"

InitFormat ==
    /\ pc = "format"
    /\ ty \in IdlTypes
    /\ formatted = Idle
    /\ IdleValidate /\ IdleExtract /\ IdleReport /\ IdleRun

FormatType ==
    /\ pc = "format"
    /\ formatted' = format_type(ty)
    /\ pc' = "formatted"
    /\ UNCHANGED <<ty, vValidate, vExtract, vReport, vRun>>

SpecFormat == InitFormat /\ [][FormatType]_vars

\* ---- C8 ----------------------------------------------------------------
\* the text of one generic argument: a type formatted, a constant verbatim
ArgText(g) == IF g[1] = "Type" THEN format_type(g[2]) ELSE g[2]

\* the arguments 1..n of gs separated by a comma and a blank, built from the left
RECURSIVE CommaJoined(_, _)
CommaJoined(gs, n) ==
    IF n = 0 THEN ""
    ELSE IF n = 1 THEN ArgText(gs[1])
    ELSE CommaJoined(gs, n - 1) \o ", " \o ArgText(gs[n])

\* C8: format_type is compositional: Option(T) is "Option<" format(T) ">",
\* Vec(T) is "Vec<" format(T) ">", Array(T, n) is "[" format(T) "; " n "]" with
\* n the literal size or the generic's name, Defined without generics and
\* Generic(name) are the name, Defined with generics is the name followed by
\* the comma-joined arguments in angle brackets, scalars are their short names
\* and an unrecognized variant is the fixed sentinel; so Array(U8, 32) is
\* "[u8; 32]", Defined{Foo,[Type(U64)]} is "Foo<u64>" and Option(Vec(Pubkey))
\* is "Option<Vec<pubkey>>".
C8_FormatIsCompositional ==
    pc = "formatted" =>
        /\ ty[1] \in Scalars => <<ty[1], formatted>> \in ShortNames
        /\ ty[1] = "Option" => formatted = "Option<" \o format_type(ty[2]) \o ">"
        /\ ty[1] = "Vec" => formatted = "Vec<" \o format_type(ty[2]) \o ">"
        /\ (ty[1] = "Array" /\ ty[3][1] = "Value") =>
              formatted = "[" \o format_type(ty[2]) \o "; " \o ToString(ty[3][2]) \o "]"
        /\ (ty[1] = "Array" /\ ty[3][1] = "Generic") =>
              formatted = "[" \o format_type(ty[2]) \o "; " \o ty[3][2] \o "]"
        /\ (ty[1] = "Defined" /\ ty[3] = <<>>) => formatted = ty[2]
        /\ (ty[1] = "Defined" /\ ty[3] # <<>>) =>
              formatted = ty[2] \o "<" \o CommaJoined(ty[3], Len(ty[3])) \o ">"
        /\ ty[1] = "Generic" => formatted = ty[2]
        /\ ty[1] = "Future" => formatted = "<unknown type>"
        /\ ty = <<"Array", <<"U8">>, <<"Value", 32>>>> => formatted = "[u8; 32]"
        /\ ty = <<"Defined", "Foo", <<(<<"Type", <<"U64">>>>)>>>> => formatted = "Foo<u64>"
        /\ ty = <<"Option", <<"Vec", <<"Pubkey">>>>>> => formatted = "Option<Vec<pubkey>>"
        /\ ty = <<"Vec", <<"Future">>>> => formatted = "Vec<<unknown type>>"
        /\ ty = <<"Defined", "Foo", <<(<<"Type", <<"U8">>>>), <<"Const", "8">>>>>>
              => formatted = "Foo<u8, 8>"

C8_Witness ==
    /\ pc = "formatted"
    /\ ty = <<"Option", <<"Vec", <<"Pubkey">>>>>>
    /\ formatted = "Option<Vec<pubkey>>"

\* ================================================================ accounts
\* IdlInstructionAccountItem values are <<"Single", acc>> with acc a record
\* [name, writable, signer, optional, pda] where pda is <<"None">> or
\* <<"Some", [seeds |-> ...]>>, or <<"Composite", [name, accounts]>>.
MaxAccountItems == 3

SingleAccounts ==
    {<<"Single", a>> :
        a \in [name : {"payer", "vault"}, writable : BOOLEAN, signer : BOOLEAN,
               optional : BOOLEAN,
               pda : {<<"None">>, <<"Some", [seeds |-> <<"seed", "seed">>]>>}]}

\* the leaf accounts the nested trees are built from
TreeAccounts ==
    {<<"Single", a>> :
        a \in [name : {"payer"}, writable : BOOLEAN, signer : BOOLEAN,
               optional : {FALSE}, pda : {<<"None">>}]
            \cup [name : {"vault"}, writable : BOOLEAN, signer : {FALSE},
                  optional : BOOLEAN,
                  pda : {<<"Some", [seeds |-> <<"seed", "seed">>]>>}]}

RECURSIVE ItemsOfSize(_), ItemListsOfSize(_)
\* the account items with exactly n nodes
ItemsOfSize(n) ==
    IF n <= 1
    THEN TreeAccounts
    ELSE {<<"Composite", [name |-> "authority_group", accounts |-> l]>> :
             l \in ItemListsOfSize(n - 1)}

\* the lists of account items with n nodes in all
ItemListsOfSize(n) ==
    IF n < 1 THEN {<<>>}
    ELSE UNION {{<<a>> \o rest : a \in ItemsOfSize(k), rest \in ItemListsOfSize(n - k)} :
                   k \in 1..n}

\* every single account alone, and every tree of up to MaxAccountItems nodes
AccountTrees ==
    {<<a>> : a \in SingleAccounts} \cup UNION {ItemListsOfSize(n) : n \in 0..MaxAccountItems}

\* str::repeat(n)
RECURSIVE repeat(_, _)
repeat(str, n) == IF n = 0 THEN "" ELSE str \o repeat(str, n - 1)

\* the IdlInstructionAccountItem::Single arm of display_accounts
single_account_lines(acc, indent) ==
    LET attrs == (IF acc.writable THEN <<"writable">> ELSE <<>>)
                 \o (IF acc.signer THEN <<"signer">> ELSE <<>>)
                 \o (IF acc.optional THEN <<"optional">> ELSE <<>>)
        attr_str == IF attrs = <<>> THEN "" ELSE " (" \o join(attrs, ", ") \o ")"
    IN  <<indent \o acc.name \o attr_str>>
        \o (IF acc.pda[1] = "Some"
            THEN <<indent \o "  PDA with " \o UsizeToString(Len(acc.pda[2].seeds))
                     \o " seeds">>
            ELSE <<>>)

\* display_accounts recursing into a composite without deepening the indent
RECURSIVE display_accounts_same_depth(_, _)
display_accounts_same_depth(accs, depth) ==
    IF accs = <<>> THEN <<>>
    ELSE LET indent == repeat("  ", depth + 2)
             account == Head(accs)
             printed ==
                 IF account[1] = "Single"
                 THEN single_account_lines(account[2], indent)
                 ELSE <<indent \o account[2].name \o ":">>
                      \o display_accounts_same_depth(account[2].accounts, depth)
         IN  printed \o display_accounts_same_depth(Tail(accs), depth)

RECURSIVE display_accounts(_, _)
display_accounts(accs, depth) ==
    IF accs = <<>> THEN <<>>
    ELSE LET indent == repeat("  ", depth + 2)
             account == Head(accs)
             printed ==
                 IF account[1] = "Single"
                 THEN single_account_lines(account[2], indent)
                 ELSE LET composite == account[2]
                      IN  <<indent \o composite.name \o ":">>
                          \o display_accounts(composite.accounts, depth + 1)
         IN  printed \o display_accounts(Tail(accs), depth)

InitAccounts ==
    /\ pc = "accounts"
    /\ accounts \in AccountTrees
    /\ names_only = FALSE
    /\ stdout = <<>>
    /\ IdleValidate /\ IdleExtract /\ IdleFormat /\ IdleRun

\* the call display_accounts(&instruction.accounts, 1) of display_instructions
DisplayAccounts ==
    /\ pc = "accounts"
    /\ stdout' = stdout \o display_accounts(accounts, 1)
    /\ pc' = "displayed"
    /\ UNCHANGED <<accounts, names_only, vValidate, vExtract, vFormat, vRun>>

SpecAccounts == InitAccounts /\ [][DisplayAccounts]_vars

\* ---- C9 ----------------------------------------------------------------
RECURSIVE Pad(_)
Pad(n) == IF n = 0 THEN "" ELSE " " \o Pad(n - 1)

\* the items of a tree in document order, each with its nesting level
RECURSIVE Preorder(_, _)
Preorder(items, level) ==
    IF items = <<>> THEN <<>>
    ELSE <<(<<Head(items), level>>)>>
         \o (IF Head(items)[1] = "Composite"
             THEN Preorder(Head(items)[2].accounts, level + 1) ELSE <<>>)
         \o Preorder(Tail(items), level)

Annotation(acc) ==
    CASE acc.writable /\ acc.signer /\ acc.optional -> " (writable, signer, optional)"
      [] acc.writable /\ acc.signer /\ ~acc.optional -> " (writable, signer)"
      [] acc.writable /\ ~acc.signer /\ acc.optional -> " (writable, optional)"
      [] acc.writable /\ ~acc.signer /\ ~acc.optional -> " (writable)"
      [] ~acc.writable /\ acc.signer /\ acc.optional -> " (signer, optional)"
      [] ~acc.writable /\ acc.signer /\ ~acc.optional -> " (signer)"
      [] ~acc.writable /\ ~acc.signer /\ acc.optional -> " (optional)"
      [] OTHER -> ""

\* indentation of the outermost items and the step added per nesting level
TopIndent == 6
IndentStep == 2

NodeLines(node) ==
    LET item == node[1]
        pad == TopIndent + IndentStep * node[2]
    IN  IF item[1] = "Composite" THEN <<Pad(pad) \o item[2].name \o ":">>
        ELSE <<Pad(pad) \o item[2].name \o Annotation(item[2])>>
             \o (IF item[2].pda[1] = "Some"
                 THEN <<Pad(pad + 2) \o "PDA with "
                          \o ToString(Len(item[2].pda[2].seeds)) \o " seeds">>
                 ELSE <<>>)

RECURSIVE TreeLines(_, _)
TreeLines(nodes, n) ==
    IF n = 0 THEN <<>> ELSE TreeLines(nodes, n - 1) \o NodeLines(nodes[n])

\* C9: display_accounts prints one name line per item in pre-order document
\* order, a composite's line ending in a colon and followed at once by its
\* children one level deeper; the indentation depends only on the nesting
\* level and grows by one fixed step per level; a Single is annotated with
\* exactly its true flags among writable, signer, optional in that order, or
\* not at all, and is followed by one seed-count line when it has a PDA.
C9_AccountTreeLines ==
    pc = "displayed" =>
        LET nodes == Preorder(accounts, 0)
        IN  stdout = TreeLines(nodes, Len(nodes))

C9_Witness ==
    /\ pc = "displayed"
    /\ accounts =
         <<(<<"Composite",
              [name |-> "authority_group",
               accounts |->
                 <<(<<"Single", [name |-> "payer", writable |-> TRUE, signer |-> TRUE,
                                 optional |-> FALSE, pda |-> <<"None">>]>>),
                   (<<"Single", [name |-> "vault", writable |-> TRUE, signer |-> FALSE,
                                 optional |-> FALSE,
                                 pda |-> <<"Some", [seeds |-> <<"seed", "seed">>]>>]>>)>>]>>)>>
    /\ stdout = <<"      authority_group:",
                  "        payer (writable, signer)",
                  "        vault (writable)",
                  "          PDA with 2 seeds">>

\* ================================================================ instructions
MaxReportInstructions == 2

ReportAccounts ==
    {<<>>,
     <<(<<"Composite",
          [name |-> "authority_group",
           accounts |->
             <<(<<"Single", [name |-> "payer", writable |-> TRUE, signer |-> TRUE,
                             optional |-> FALSE, pda |-> <<"None">>]>>)>>]>>),
       (<<"Single", [name |-> "vault", writable |-> TRUE, signer |-> FALSE,
                     optional |-> FALSE,
                     pda |-> <<"Some", [seeds |-> <<"seed">>]>>]>>)>>}

ReportArgs ==
    {<<>>,
     <<[name |-> "amount", ty |-> <<"U64">>, docs |-> <<>>],
       [name |-> "memo", ty |-> <<"Option", <<"String">>>>, docs |-> <<"free", "text">>]>>}

ReportInstructions ==
    [name : {"initialize", "close"},
     docs : {<<>>, <<"First line", "Second line">>},
     args : ReportArgs,
     accounts : ReportAccounts,
     returns : {<<"None">>, <<"Some", <<"Vec", <<"U8">>>>>>}]

ReportDocuments ==
    [address : {"Prog111"},
     metadata : {[name |-> "demo", version |-> "0.1.0"]},
     instructions : BoundedSeq(ReportInstructions, MaxReportInstructions)]

ReportFiles == {<<"ReadErr">>, <<"ParseErr">>} \cup {<<"Idl", d>> : d \in ReportDocuments}

\* the lines printed for one argument
arg_lines(arg) ==
    <<"     " \o arg.name \o " (" \o format_type(arg.ty) \o ")">>
    \o (IF arg.docs # <<>> THEN <<"       " \o join(arg.docs, " ")>> ELSE <<>>)

RECURSIVE args_lines(_)
args_lines(args) ==
    IF args = <<>> THEN <<>> ELSE arg_lines(Head(args)) \o args_lines(Tail(args))

\* what the loop of display_instructions prints under `if !names_only`
instruction_details(instruction) ==
    (IF instruction.docs # <<>>
     THEN <<"   Description:">>
          \o [i \in 1..Len(instruction.docs) |-> "     " \o instruction.docs[i]]
     ELSE <<>>)
    \o (IF instruction.args # <<>>
        THEN <<"   Arguments:">> \o args_lines(instruction.args)
        ELSE <<"   Arguments: None">>)
    \o <<"   Accounts:">>
    \o (IF instruction.accounts = <<>>
        THEN <<"     None">>
        ELSE display_accounts(instruction.accounts, 1))
    \o (IF instruction.returns[1] = "Some"
        THEN <<"   Returns: " \o format_type(instruction.returns[2])>>
        ELSE <<>>)

\* the loop body with the names-only test inverted
instruction_lines_flag_inverted(idx, instruction, only_names) ==
    <<"", UsizeToString(idx + 1) \o ". " \o instruction.name>>
    \o (IF only_names THEN instruction_details(instruction) ELSE <<>>)

\* the body of the loop of display_instructions for the instruction at idx
\* (idx counts from 0 as enumerate() does)
instruction_lines(idx, instruction, only_names) ==
    <<"", UsizeToString(idx + 1) \o ". " \o instruction.name>>
    \o (IF ~only_names THEN instruction_details(instruction) ELSE <<>>)

RECURSIVE instructions_loop(_, _, _)
instructions_loop(instructions, idx, only_names) ==
    IF idx >= Len(instructions) THEN <<>>
    ELSE instruction_lines(idx, instructions[idx + 1], only_names)
         \o instructions_loop(instructions, idx + 1, only_names)

\* what display_instructions prints and returns
display_instructions(file, only_names) ==
    IF file[1] = "ReadErr" THEN [out |-> <<>>, ret |-> Err("Failed to read IDL file")]
    ELSE IF file[1] = "ParseErr" THEN [out |-> <<>>, ret |-> Err("Failed to parse IDL")]
    ELSE LET doc == file[2]
         IN  [out |-> <<"", "Program: " \o doc.metadata.name \o " (v"
                               \o doc.metadata.version \o ")",
                        "Address: " \o doc.address,
                        "", "Instructions (" \o UsizeToString(Len(doc.instructions)) \o "):">>
                      \o instructions_loop(doc.instructions, 0, only_names),
              ret |-> Ok("()")]

InitReport ==
    /\ pc = "instructions"
    /\ idl_file \in ReportFiles
    /\ names_only \in BOOLEAN
    /\ result = Idle
    /\ accounts = Idle
    /\ stdout = <<>>
    /\ IdleExtract /\ IdleFormat /\ IdleRun

\* Commands::Instructions: main calls display_instructions(input, names_only)
DisplayInstructions ==
    /\ pc = "instructions"
    /\ stdout' = stdout \o display_instructions(idl_file, names_only).out
    /\ result' = display_instructions(idl_file, names_only).ret
    /\ pc' = "reported"
    /\ UNCHANGED <<idl_file, names_only, accounts, vExtract, vFormat, vRun>>

SpecReport == InitReport /\ [][DisplayInstructions]_vars

\* ---- C10 ---------------------------------------------------------------
ReportHeader(d) ==
    <<"", "Program: " \o d.metadata.name \o " (v" \o d.metadata.version \o ")",
      "Address: " \o d.address,
      "", "Instructions (" \o ToString(Len(d.instructions)) \o "):">>

NameLine(i, ins) == ToString(i) \o ". " \o ins.name

DocsSection(ins) ==
    IF Len(ins.docs) = 0 THEN <<>>
    ELSE <<"   Description:">> \o [k \in 1..Len(ins.docs) |-> "     " \o ins.docs[k]]

RECURSIVE ArgsUpTo(_, _)
ArgsUpTo(ins, n) ==
    IF n = 0 THEN <<>>
    ELSE ArgsUpTo(ins, n - 1)
         \o <<"     " \o ins.args[n].name \o " (" \o format_type(ins.args[n].ty) \o ")">>
         \o (IF Len(ins.args[n].docs) = 0 THEN <<>>
             ELSE <<"       " \o join(ins.args[n].docs, " ")>>)

ArgsSection(ins) ==
    IF Len(ins.args) = 0 THEN <<"   Arguments: None">>
    ELSE <<"   Arguments:">> \o ArgsUpTo(ins, Len(ins.args))

AccountsSection(ins) ==
    <<"   Accounts:">>
    \o (IF Len(ins.accounts) = 0 THEN <<"     None">>
        ELSE TreeLines(Preorder(ins.accounts, 0), Len(Preorder(ins.accounts, 0))))

ReturnsSection(ins) ==
    IF ins.returns = <<"None">> THEN <<>>
    ELSE <<"   Returns: " \o format_type(ins.returns[2])>>

\* the blocks of instructions 1..n, each a blank line, the numbered name and,
\* unless only names are asked for, the four sections
RECURSIVE ReportBlocks(_, _, _)
ReportBlocks(d, n, only) ==
    IF n = 0 THEN <<>>
    ELSE ReportBlocks(d, n - 1, only)
         \o <<"", NameLine(n, d.instructions[n])>>
         \o (IF only THEN <<>>
             ELSE DocsSection(d.instructions[n]) \o ArgsSection(d.instructions[n])
                  \o AccountsSection(d.instructions[n])
                  \o ReturnsSection(d.instructions[n]))

\* C10: with names-only the report holds, after its header, only the numbered
\* names, one per instruction, numbered 1..n in document order, unsorted and
\* with duplicates kept; without it every block also carries the docs, the
\* arguments or "Arguments: None", the account tree or "None", and the return
\* type when there is one, still in document order.
C10_InstructionReport ==
    (pc = "reported" /\ idl_file[1] = "Idl") =>
        LET d == idl_file[2]
        IN  /\ stdout = ReportHeader(d) \o ReportBlocks(d, Len(d.instructions), names_only)
            /\ names_only =>
                  /\ Len(stdout) = 5 + 2 * Len(d.instructions)
                  /\ \A i \in 1..Len(d.instructions) :
                        /\ stdout[5 + 2 * i - 1] = ""
                        /\ stdout[5 + 2 * i] = NameLine(i, d.instructions[i])

\* two instructions with docs, arguments, accounts and a return type, in an
\* order that is not alphabetical, reported by name only
C10_Witness ==
    /\ pc = "reported"
    /\ names_only
    /\ idl_file[1] = "Idl"
    /\ Len(idl_file[2].instructions) = 2
    /\ \A i \in 1..2 :
          /\ idl_file[2].instructions[i].docs # <<>>
          /\ idl_file[2].instructions[i].args # <<>>
          /\ idl_file[2].instructions[i].accounts # <<>>
          /\ idl_file[2].instructions[i].returns # <<"None">>
    /\ stdout = <<"", "Program: demo (v0.1.0)", "Address: Prog111", "", "Instructions (2):",
                  "", "1. initialize", "", "2. close">>

\* ================================================================ file-writing commands
\* Text that the code only copies, joins or compares is a sequence of tokens:
\* "/" and "." are tokens of their own, other tokens stand for runs of other
\* characters.  serde_json::Value is <<"Null">>, <<"Bool", b>>, <<"Number", n>>,
\* <<"String", text>>, <<"Array", items>> or <<"Object", entries>>, entries
\* being the <<key, value>> pairs of the map in its iteration order.
MaxMembers == 3

Str(text) == <<"String", text>>

\* the members a template object is written with, in any order and number
TemplateMembers ==
    {<<"name", v>> : v \in {Str(<<"demo">>), Str(<<"/", "demo">>), <<"Number", 7>>}}
    \cup {<<"address", v>> : v \in {Str(<<"old">>), <<"Null">>}}
    \cup {<<"aa", v>> : v \in {<<"Number", 7>>, <<"Object", <<(<<"k", Str(<<"v">>)>>)>>>>}}

\* the template file: text that is not JSON, or the JSON document written in it
TemplateTexts ==
    {<<"Invalid">>}
    \cup {<<"Json", v>> : v \in {<<"Null">>, <<"Bool", TRUE>>, <<"Number", 7>>,
                                 Str(<<"demo">>), <<"Array", <<>>>>}}
    \cup {<<"Json", <<"Object", ms>>>> : ms \in BoundedSeq(TemplateMembers, MaxMembers)}

GoodSource == <<" ">> \o DeclareId \o <<"(", Quote, "A", "B", Quote, ")", ";">>
LibSources == {GoodSource, <<"A">>, DeclareId \o <<"(", Quote, "A">>}

\* ---- std::path
RECURSIVE components(_)
components(text) ==
    LET n == find(text, "/", 1)
    IN  IF text = <<>> THEN <<>>
        ELSE IF n = 0 THEN <<text>>
        ELSE IF n = 1 THEN components(Tail(text))
        ELSE <<SubSeq(text, 1, n - 1)>> \o components(SubSeq(text, n + 1, Len(text)))

\* PathBuf::from
path_from(text) == [abs |-> text # <<>> /\ text[1] = "/", comps |-> components(text)]

\* Path::join: an absolute argument replaces the base
path_join(base, other) ==
    IF other.abs THEN other
    ELSE [abs |-> base.abs, comps |-> base.comps \o other.comps]

\* Path::parent
parent(path) ==
    IF path.comps = <<>> THEN <<"None">>
    ELSE <<"Some", [abs |-> path.abs,
                    comps |-> SubSeq(path.comps, 1, Len(path.comps) - 1)]>>

\* the directories fs::create_dir_all(path) makes sure exist
created_dirs(path) ==
    {[abs |-> path.abs, comps |-> SubSeq(path.comps, 1, k)] : k \in 1..Len(path.comps)}

\* position of the last "." of a file name that starts an extension, 0 if none
RECURSIVE last_dot(_, _)
last_dot(name, i) ==
    IF i <= 1 THEN 0 ELSE IF name[i] = "." THEN i ELSE last_dot(name, i - 1)

\* Path::file_stem of the last component
file_stem(path) ==
    IF path.comps = <<>> THEN <<>>
    ELSE LET name == path.comps[Len(path.comps)]
             d == last_dot(name, Len(name))
         IN  IF d = 0 THEN name ELSE SubSeq(name, 1, d - 1)

\* Path::with_file_name
with_file_name(path, name) ==
    IF path.comps = <<>> THEN [abs |-> path.abs, comps |-> <<name>>]
    ELSE [path EXCEPT !.comps[Len(path.comps)] = name]

\* PathBuf::set_extension
set_extension(path, ext) ==
    IF path.comps = <<>> THEN path
    ELSE with_file_name(path, file_stem(path) \o <<".">> \o ext)

ProgramPath == path_from(<<"prog">>)
ExplicitOutput == path_from(<<"out", "/", "idl", ".", "json">>)
InputPaths == {path_from(<<"legacy", ".", "json">>), path_from(<<"in", "/", "legacy">>)}

\* ---- serde_json
\* the order of String keys in a BTreeMap, for the keys the templates use
KeyOrder == <<"aa", "address", "k", "name">>
key_rank(key) == CHOOSE i \in 1..Len(KeyOrder) : KeyOrder[i] = key

key_position(entries, key) ==
    IF \E i \in 1..Len(entries) : entries[i][1] = key
    THEN CHOOSE i \in 1..Len(entries) : entries[i][1] = key
    ELSE 0

\* Map::insert: an existing key keeps its place and takes the new value; a new
\* key goes last in an insertion-ordered map and to its sorted place otherwise
map_insert(entries, key, value, ordered) ==
    LET at == key_position(entries, key)
        before == Cardinality({i \in 1..Len(entries) : key_rank(entries[i][1]) < key_rank(key)})
    IN  IF at # 0 THEN [entries EXCEPT ![at] = <<key, value>>]
        ELSE IF ordered THEN Append(entries, <<key, value>>)
        ELSE SubSeq(entries, 1, before) \o <<(<<key, value>>)>>
             \o SubSeq(entries, before + 1, Len(entries))

\* Map::swap_remove followed by Map::insert: the last entry takes the place of
\* the removed one in an insertion-ordered map
map_swap_remove_insert(entries, key, value, ordered) ==
    LET at == key_position(entries, key)
        n == Len(entries)
        removed == IF at = 0 THEN entries
                   ELSE IF ~ordered
                   THEN SubSeq(entries, 1, at - 1) \o SubSeq(entries, at + 1, n)
                   ELSE IF at = n THEN SubSeq(entries, 1, n - 1)
                   ELSE SubSeq([entries EXCEPT ![at] = entries[n]], 1, n - 1)
        before == Cardinality({i \in 1..Len(removed) : key_rank(removed[i][1]) < key_rank(key)})
    IN  IF ordered THEN Append(removed, <<key, value>>)
        ELSE SubSeq(removed, 1, before) \o <<(<<key, value>>)>>
             \o SubSeq(removed, before + 1, Len(removed))

RECURSIVE insert_members(_, _, _)
insert_members(entries, members, ordered) ==
    IF members = <<>> THEN entries
    ELSE insert_members(map_insert(entries, members[1][1], members[1][2], ordered),
                        Tail(members), ordered)

\* serde_json::from_str::<Value>, refusing everything but an object
from_str_object_only(text, ordered) ==
    IF text[1] = "Invalid" \/ text[2][1] # "Object" THEN Err("Failed to parse template IDL as JSON")
    ELSE Ok(<<"Object", insert_members(<<>>, text[2][2], ordered)>>)

\* serde_json::from_str::<Value>
from_str(text, ordered) ==
    IF text[1] = "Invalid" THEN Err("Failed to parse template IDL as JSON")
    ELSE IF text[2][1] = "Object"
    THEN Ok(<<"Object", insert_members(<<>>, text[2][2], ordered)>>)
    ELSE Ok(text[2])

\* Value's Index<&str>: Null unless the value is an object holding the key
index(value, key) ==
    IF value[1] = "Object" /\ key_position(value[2], key) # 0
    THEN value[2][key_position(value[2], key)][2]
    ELSE <<"Null">>

\* Value::as_str
as_str(value) == IF value[1] = "String" THEN <<"Some", value[2]>> ELSE <<"None">>

\* idl[key] = new through Value's IndexMut<&str>, with the entry removed first
index_assign_swap_remove(value, key, new, ordered) ==
    IF value[1] = "Null" THEN <<"Object", <<(<<key, new>>)>>>>
    ELSE <<"Object", map_swap_remove_insert(value[2], key, new, ordered)>>

\* idl[key] = new through Value's IndexMut<&str> (an object, or Null made one)
index_assign(value, key, new, ordered) ==
    IF value[1] = "Null" THEN <<"Object", <<(<<key, new>>)>>>>
    ELSE <<"Object", map_insert(value[2], key, new, ordered)>>

\* serde_json::to_string_pretty, as the pieces of text it writes in order
to_string_pretty(value) ==
    IF value[1] = "Object"
    THEN <<(<<"{">>)>> \o [i \in 1..Len(value[2]) |-> <<"member", value[2][i][1], value[2][i][2]>>]
         \o <<(<<"}">>)>>
    ELSE <<(<<"value", value>>)>>

\* the Idl documents the engine returns, by their metadata.name
EngineIdls == {[metadata |-> [name |-> <<"demo">>]]}
idl_to_string_pretty(doc) == <<(<<"{">>), <<"metadata", doc.metadata.name>>, (<<"}">>)>>

\* ---- the file system
OldContent == <<(<<"old">>)>>
InitialFs == [p \in {ExplicitOutput} |-> OldContent]

\* the file at path holding content, every other file as it was
with_file(files, path, content) ==
    [p \in DOMAIN files \cup {path} |-> IF p = path THEN content ELSE files[p]]

None == <<"None">>
Some(v) == <<"Some", v>>

InitRun ==
    /\ command \in {"patch", "build", "convert"}
    /\ pc = CASE command = "patch" -> "read_template"
              [] command = "build" -> "build_idl"
              [] OTHER -> "read_input"
    /\ cli_output \in {None, Some(ExplicitOutput)}
    /\ \/ /\ command = "patch"
          /\ template_file \in TemplateTexts
          /\ lib_rs \in LibSources
          /\ preserve_order \in BOOLEAN
          /\ input_path = Idle
       \/ /\ command = "build"
          /\ template_file = Idle /\ lib_rs = Idle /\ preserve_order = FALSE
          /\ input_path = Idle
       \/ /\ command = "convert"
          /\ template_file = Idle /\ lib_rs = Idle /\ preserve_order = FALSE
          /\ input_path \in InputPaths
    /\ fs = InitialFs
    /\ dirs = {}
    /\ IdleLocals
    /\ idl_file = Idle /\ result = Idle
    /\ IdleExtract /\ IdleFormat /\ IdleReport

vOthers == <<idl_file, extracted, vFormat, vReport>>

\* a `?` that returns the error
Fails(msg) ==
    /\ pc' = "failed"
    /\ result' = Err(msg)

\* File::create(path): fails, or leaves the file at path empty
FileCreate(next, msg) ==
    \/ /\ Fails(msg)
       /\ UNCHANGED fs
    \/ /\ fs' = with_file(fs, output_path, <<>>)
       /\ pc' = next
       /\ UNCHANGED result

\* write_all(idl_json): fails with only the first k pieces written, or writes all
FileWriteAll(msg) ==
    \/ \E k \in 0..(Len(idl_json) - 1) :
          /\ fs' = with_file(fs, output_path, SubSeq(idl_json, 1, k))
          /\ Fails(msg)
    \/ /\ fs' = with_file(fs, output_path, idl_json)
       /\ pc' = "done"
       /\ result' = Ok("()")

\* ---- gen: main
ReadTemplate ==
    /\ pc = "read_template"
    /\ \/ Fails("Failed to read template IDL file")
       \/ pc' = "parse_template" /\ UNCHANGED result
    /\ UNCHANGED <<vInputs, fs, dirs, vLocals, source_code, vOthers>>

ParseTemplate ==
    /\ pc = "parse_template"
    /\ LET parsed == from_str(template_file, preserve_order)
       IN  \/ /\ IsErr(parsed)
              /\ Fails(parsed[2])
              /\ UNCHANGED idl
           \/ /\ IsOk(parsed)
              /\ idl' = parsed[2]
              /\ pc' = "get_name"
              /\ UNCHANGED result
    /\ UNCHANGED <<vInputs, fs, dirs, program_name, program_id, output_path, idl_json,
                   source_code, vOthers>>

GetProgramName ==
    /\ pc = "get_name"
    /\ LET name == as_str(index(idl, "name"))
       IN  \/ /\ name = None
              /\ Fails("Program name not found in template IDL")
              /\ UNCHANGED program_name
           \/ /\ name # None
              /\ program_name' = name[2]
              /\ pc' = "read_source"
              /\ UNCHANGED result
    /\ UNCHANGED <<vInputs, fs, dirs, idl, program_id, output_path, idl_json,
                   source_code, vOthers>>

ReadSource ==
    /\ pc = "read_source"
    /\ \/ Fails("Failed to read src/lib.rs") /\ UNCHANGED source_code
       \/ source_code' = lib_rs /\ pc' = "extract_id" /\ UNCHANGED result
    /\ UNCHANGED <<vInputs, fs, dirs, vLocals, vOthers>>

ExtractId ==
    /\ pc = "extract_id"
    /\ LET id == extract_program_id(source_code)
       IN  \/ /\ IsErr(id)
              /\ Fails("Failed to extract program ID")
              /\ UNCHANGED program_id
           \/ /\ IsOk(id)
              /\ program_id' = id[2]
              /\ pc' = "patch_address"
              /\ UNCHANGED result
    /\ UNCHANGED <<vInputs, fs, dirs, idl, program_name, output_path, idl_json,
                   source_code, vOthers>>

PatchAddress ==
    /\ pc = "patch_address"
    /\ idl' = index_assign(idl, "address", Str(program_id), preserve_order)
    /\ pc' = "resolve_output"
    /\ UNCHANGED <<vInputs, fs, dirs, program_name, program_id, output_path, idl_json,
                   source_code, result, vOthers>>

TargetIdl == path_from(<<"target", "/", "idl">>)

\* target_dir.join(format!("{}.json", program_name))
default_output(name) ==
    path_join(path_join(ProgramPath, TargetIdl), path_from(name \o <<".", "json">>))

\* match cli.output of gen's main, ignoring the explicit path
resolve_output_default_only(output, name) == default_output(name)

\* match cli.output of gen's main
resolve_output(output, name) ==
    IF output[1] = "Some" THEN output[2] ELSE default_output(name)

ResolveOutput ==
    /\ pc = "resolve_output"
    /\ \/ /\ cli_output # None
          /\ output_path' = resolve_output(cli_output, program_name)
          /\ pc' = "serialize"
          /\ UNCHANGED <<dirs, result>>
       \/ /\ cli_output = None
          /\ \/ /\ Fails("Failed to create target/idl directory")
                /\ UNCHANGED <<dirs, output_path>>
             \/ /\ dirs' = dirs \cup created_dirs(path_join(ProgramPath, TargetIdl))
                /\ output_path' = resolve_output(cli_output, program_name)
                /\ pc' = "serialize"
                /\ UNCHANGED result
    /\ UNCHANGED <<vInputs, fs, idl, program_name, program_id, idl_json,
                   source_code, vOthers>>

Serialize ==
    /\ pc = "serialize"
    /\ idl_json' = to_string_pretty(idl)
    /\ pc' = "create_parent"
    /\ UNCHANGED <<vInputs, fs, dirs, idl, program_name, program_id, output_path,
                   source_code, result, vOthers>>

\* ---- gen: write_idl_to_file
CreateParent ==
    /\ pc = "create_parent"
    /\ \/ /\ parent(output_path) = None
          /\ pc' = "create_file"
          /\ UNCHANGED <<dirs, result>>
       \/ /\ parent(output_path) # None
          /\ \/ /\ Fails("Failed to create output directory")
                /\ UNCHANGED dirs
             \/ /\ dirs' = dirs \cup created_dirs(parent(output_path)[2])
                /\ pc' = "create_file"
                /\ UNCHANGED result
    /\ UNCHANGED <<vInputs, fs, vLocals, source_code, vOthers>>

CreateFile ==
    /\ pc = "create_file"
    /\ FileCreate("write_all", "Failed to create IDL file")
    /\ UNCHANGED <<vInputs, dirs, vLocals, source_code, vOthers>>

WriteAll ==
    /\ pc = "write_all"
    /\ FileWriteAll("Failed to write IDL JSON to file")
    /\ UNCHANGED <<vInputs, dirs, vLocals, source_code, vOthers>>

\* ---- cli: Commands::Build
BuildIdl ==
    /\ pc = "build_idl"
    /\ \/ Fails("Failed to build IDL") /\ UNCHANGED idl
       \/ idl' \in EngineIdls /\ pc' = "build_serialize" /\ UNCHANGED result
    /\ UNCHANGED <<vInputs, fs, dirs, program_name, program_id, output_path, idl_json,
                   source_code, vOthers>>

BuildSerialize ==
    /\ pc = "build_serialize"
    /\ idl_json' = idl_to_string_pretty(idl)
    /\ pc' = "build_resolve_output"
    /\ UNCHANGED <<vInputs, fs, dirs, idl, program_name, program_id, output_path,
                   source_code, result, vOthers>>

BuildResolveOutput ==
    /\ pc = "build_resolve_output"
    /\ output_path' = IF cli_output # None THEN cli_output[2]
                      ELSE path_from(idl.metadata.name \o <<".", "json">>)
    /\ pc' = "build_create"
    /\ UNCHANGED <<vInputs, fs, dirs, idl, program_name, program_id, idl_json,
                   source_code, result, vOthers>>

BuildCreate ==
    /\ pc = "build_create"
    /\ FileCreate("build_write", "Failed to write IDL")
    /\ UNCHANGED <<vInputs, dirs, vLocals, source_code, vOthers>>

BuildWrite ==
    /\ pc = "build_write"
    /\ FileWriteAll("Failed to write IDL")
    /\ UNCHANGED <<vInputs, dirs, vLocals, source_code, vOthers>>

\* ---- cli: Commands::Convert
ConvertRead ==
    /\ pc = "read_input"
    /\ \/ Fails("Failed to read IDL file")
       \/ pc' = "convert_idl" /\ UNCHANGED result
    /\ UNCHANGED <<vInputs, fs, dirs, vLocals, source_code, vOthers>>

ConvertIdl ==
    /\ pc = "convert_idl"
    /\ \/ Fails("Failed to convert IDL") /\ UNCHANGED idl
       \/ idl' \in EngineIdls /\ pc' = "convert_serialize" /\ UNCHANGED result
    /\ UNCHANGED <<vInputs, fs, dirs, program_name, program_id, output_path, idl_json,
                   source_code, vOthers>>

ConvertSerialize ==
    /\ pc = "convert_serialize"
    /\ idl_json' = idl_to_string_pretty(idl)
    /\ pc' = "convert_resolve_output"
    /\ UNCHANGED <<vInputs, fs, dirs, idl, program_name, program_id, output_path,
                   source_code, result, vOthers>>

ConvertResolveOutput ==
    /\ pc = "convert_resolve_output"
    /\ output_path' =
          IF cli_output # None THEN cli_output[2]
          ELSE set_extension(with_file_name(input_path, file_stem(input_path)),
                             <<"converted", ".", "json">>)
    /\ pc' = "convert_create"
    /\ UNCHANGED <<vInputs, fs, dirs, idl, program_name, program_id, idl_json,
                   source_code, result, vOthers>>

ConvertCreate ==
    /\ pc = "convert_create"
    /\ FileCreate("convert_write", "Failed to write converted IDL")
    /\ UNCHANGED <<vInputs, dirs, vLocals, source_code, vOthers>>

ConvertWrite ==
    /\ pc = "convert_write"
    /\ FileWriteAll("Failed to write converted IDL")
    /\ UNCHANGED <<vInputs, dirs, vLocals, source_code, vOthers>>

NextRun ==
    \/ ReadTemplate \/ ParseTemplate \/ GetProgramName \/ ReadSource \/ ExtractId
    \/ PatchAddress \/ ResolveOutput \/ Serialize \/ CreateParent \/ CreateFile
    \/ WriteAll
    \/ BuildIdl \/ BuildSerialize \/ BuildResolveOutput \/ BuildCreate \/ BuildWrite
    \/ ConvertRead \/ ConvertIdl \/ ConvertSerialize \/ ConvertResolveOutput
    \/ ConvertCreate \/ ConvertWrite

SpecRun == InitRun /\ [][NextRun]_vars

\* ---- C4 ----------------------------------------------------------------
AfterPatch == {"resolve_output", "serialize", "create_parent", "create_file", "write_all", "done"}
IsOtherKey(entry) == entry[1] # "address"
TemplateObject == template_file[2][2]

\* the value the text gives a key: that of its last member with that key
AuthoredValue(key) ==
    TemplateObject[CHOOSE i \in 1..Len(TemplateObject) :
                       /\ TemplateObject[i][1] = key
                       /\ \A j \in (i + 1)..Len(TemplateObject) : TemplateObject[j][1] # key][2]

Terminal == pc \in {"done", "failed"}
TemplateWasRead == result # Err("Failed to read template IDL file")
TemplateHasStringName ==
    /\ template_file[1] = "Json"
    /\ template_file[2][1] = "Object"
    /\ \E i \in 1..Len(TemplateObject) : TemplateObject[i][1] = "name"
    /\ AuthoredValue("name")[1] = "String"
TemplateIsObject == template_file[1] = "Json" /\ template_file[2][1] = "Object"

InsideProgramRoot(name) ==
    [abs |-> FALSE, comps |-> <<(<<"prog">>), <<"target">>, <<"idl">>, name \o <<".", "json">>>>]

OnlyOutputWritten ==
    /\ DOMAIN fs = DOMAIN InitialFs \cup {output_path}
    /\ fs[output_path] = idl_json
    /\ \A p \in DOMAIN InitialFs : p # output_path => fs[p] = InitialFs[p]

\* C5 as stated: the file written is the explicit output path when one is
\* given and <program-root>/target/idl/<name>.json otherwise; a run with an
\* explicit output path does not depend on the template's name, and a run
\* without one fails with the missing-name error when the name is absent.
C5_NameOnlyForDefaultPath ==
    (command = "patch" /\ Terminal) =>
        /\ (pc = "done" /\ cli_output # None) => output_path = cli_output[2] /\ OnlyOutputWritten
        /\ (pc = "done" /\ cli_output = None) =>
              output_path = InsideProgramRoot(program_name) /\ OnlyOutputWritten
        /\ (cli_output # None /\ TemplateIsObject)
              => result # Err("Program name not found in template IDL")
        /\ (cli_output = None /\ TemplateWasRead /\ TemplateIsObject /\ ~TemplateHasStringName)
              => result = Err("Program name not found in template IDL")

\* C5 amended: the file written is the explicit output path when one is given,
\* and otherwise the program root joined with target/idl and <name>.json, which
\* is <program-root>/target/idl/<name>.json unless the name starts with "/" and
\* then is <name>.json itself; the name is looked up in every run, so a
\* template object without a string name gives the missing-name error with or
\* without an explicit output path.
C5_NameAlwaysRequired ==
    (command = "patch" /\ Terminal) =>
        /\ (pc = "done" /\ cli_output # None) => output_path = cli_output[2] /\ OnlyOutputWritten
        /\ (pc = "done" /\ cli_output = None /\ program_name[1] # "/") =>
              output_path = InsideProgramRoot(program_name) /\ OnlyOutputWritten
        /\ (pc = "done" /\ cli_output = None /\ program_name[1] = "/") =>
              /\ output_path = [abs |-> TRUE, comps |-> <<Tail(program_name) \o <<".", "json">>>>]
              /\ OnlyOutputWritten
        /\ (TemplateWasRead /\ TemplateIsObject /\ ~TemplateHasStringName)
              => result = Err("Program name not found in template IDL")
        /\ pc = "done" => TemplateHasStringName

C5_Witness ==
    /\ command = "patch" /\ pc = "done" /\ cli_output = None
    /\ program_name = <<"demo">>
    /\ InsideProgramRoot(<<"demo">>) \in DOMAIN fs
    /\ fs[InsideProgramRoot(<<"demo">>)] = idl_json
    /\ fs[ExplicitOutput] = OldContent

\* ---- C6 ----------------------------------------------------------------
WriteStages == {"write_all", "build_write", "convert_write"}
WriteFailures == {Err("Failed to write IDL JSON to file"), Err("Failed to write IDL"),
                  Err("Failed to write converted IDL")}

\* C6: the output file is created or written only after every earlier stage
\* has succeeded; a run that fails leaves the output path neither created nor
\* modified, and no run ends with the output file half written.
C6_NoPartialOutput ==
    command \in {"patch", "build", "convert"} =>
        /\ fs # InitialFs => \/ pc \in WriteStages \cup {"done"}
                             \/ pc = "failed" /\ result \in WriteFailures
        /\ (pc = "failed" /\ result \notin WriteFailures) => fs = InitialFs
        /\ Terminal =>
              \A p \in DOMAIN fs :
                  \/ p \in DOMAIN InitialFs /\ fs[p] = InitialFs[p]
                  \/ p = output_path /\ fs[p] = idl_json

\* ---- C7 ----------------------------------------------------------------
\* C7 as stated: a template that is not a JSON object, be it not JSON at all
\* or JSON of another kind, fails with the malformed-template error, which is
\* not the missing-name error, and nothing is written.
C7_NonObjectIsMalformed ==
    (command = "patch" /\ Terminal /\ TemplateWasRead /\ ~TemplateIsObject) =>
        /\ result = Err("Failed to parse template IDL as JSON")
        /\ fs = InitialFs

\* C7 amended: a template that is not JSON fails with the template-parse
\* error; a template that is JSON of another kind than an object fails with
\* the missing-name error, the same as an object without a string name; in
\* both cases nothing is written.
C7_NonObjectIsNameless ==
    (command = "patch" /\ Terminal /\ TemplateWasRead /\ ~TemplateIsObject) =>
        /\ template_file[1] = "Invalid" => result = Err("Failed to parse template IDL as JSON")
        /\ template_file[1] = "Json" => result = Err("Program name not found in template IDL")
        /\ fs = InitialFs
        /\ dirs = {}

C7_Witness ==
    /\ command = "patch" /\ pc = "failed"
    /\ template_file = <<"Json", <<"Array", <<>>>>>>
    /\ result = Err("Program name not found in template IDL")
    /\ fs = InitialFs

====
